---- MODULE Spec2Model ----
(***************************************************************************)
(* Model of src/ocw.py: the drand -> chain pulse bridge.                   *)
(*                                                                         *)
(* One block-header notification runs submit_new_pulses once.  The run is  *)
(* cut at its blocking calls: every HTTP request of the failover loop and  *)
(* the wait for inclusion are steps of their own, everything between two   *)
(* blocking calls is one step.                                             *)
(***************************************************************************)
EXTENDS Integers, Sequences, FiniteSets, TLC

\* ------------------------------------------------------------------ bounds
MaxBlock == 2          \* block numbers the feed delivers: 1..MaxBlock
MaxPending == 2        \* notifications waiting at the feed boundary
BeaconSigLen == 2      \* bytes of a beacon signature (any length is legal)

\* ------------------------------------------------------- program constants
HTTP_FETCH_TIMEOUT == 10000
MAX_PULSES_TO_FETCH == 50
RANDOMNESS_LEN == 32
DRAND_ENDPOINTS ==
    << "api.drand.sh", "api2.drand.sh", "api3.drand.sh",
       "drand.cloudflare.com", "api.drand.secureweb3.com:6875" >>

\* ------------------------------------------------------------ input sets
\* A storage query answers with a value or with None.
NoneResult == [present |-> FALSE, value |-> 0]
Some(v) == [present |-> TRUE, value |-> v]
NextUnsignedAtValues == {NoneResult, Some(2)}
LastStoredRoundValues == {NoneResult, Some(0), Some(1), Some(2)}
LatestRoundValues == {1, 3, 4, 52}
\* What one HTTP request can end as, and how long it can take (ms).
Statuses == {"200", "non200", "transport_error"}
Durations == {0, 5000}
\* The beacon serves every round honestly, except at most one faulty entry.
NoFault == [kind |-> "none", round |-> 0]
BeaconFaults ==
    {NoFault} \cup
    [kind : {"wrong_round", "short_randomness", "long_randomness"}, round : {3}]

VARIABLES
    \* the chain's storage (owned by the chain)
    chainNextUnsignedAt, chainLastStoredRound,
    \* the beacon
    beaconLatest, beaconFault,
    \* the block-header feed
    head, pending,
    \* submit_new_pulses: position and locals
    pc, current_block, next_unsigned_at, last_stored_round, current_round,
    rounds_to_fetch, r, pulses,
    \* fetch_from_any_endpoint: locals
    relative_path, endpointIdx, elapsed, response,
    \* what the cycle did, as seen from outside
    attempts, latestFetches, requested, calls, stepFailed, outcome,
    \* the line the cycle printed, and the receipt of its submission
    printed, receipt,
    \* a pure function applied on its own: its argument and what came back
    input, result

chainVars == << chainNextUnsignedAt, chainLastStoredRound >>
beaconVars == << beaconLatest, beaconFault >>
feedVars == << head, pending >>
gateVars == << current_block, next_unsigned_at, last_stored_round, current_round,
               rounds_to_fetch >>
fetchVars == << relative_path, endpointIdx, elapsed, response, attempts >>
pureVars == << input, result >>
vars == << chainVars, beaconVars, feedVars, pc, gateVars, r, pulses, fetchVars,
           latestFetches, requested, calls, stepFailed, outcome, printed, receipt,
           pureVars >>

\* ------------------------------------------------------------- helpers
Min(a, b) == IF a < b THEN a ELSE b

Range(s) == {s[i] : i \in DOMAIN s}

RECURSIVE Flatten(_)
Flatten(ss) == IF ss = << >> THEN << >> ELSE Head(ss) \o Flatten(Tail(ss))

\* bytes.hex(): two hex digits (each 0..15) per byte, high nibble first.
hex(bytes) == Flatten([i \in DOMAIN bytes |-> << bytes[i] \div 16, bytes[i] % 16 >>])

\* binascii.unhexlify: raises on an odd number of digits.
unhexlify(digits) ==
    IF Len(digits) % 2 # 0
    THEN [raised |-> TRUE, bytes |-> << >>]
    ELSE [raised |-> FALSE,
          bytes |-> [i \in 1..(Len(digits) \div 2) |->
                        digits[2 * i - 1] * 16 + digits[2 * i]]]

\* `x.value or 0`
ValueOrZero(q) == IF q.present /\ q.value # 0 THEN q.value ELSE 0

\* ------------------------------------------------------------- the beacon
\* The bytes the beacon publishes for round n.
RandomnessOf(n, len) == [i \in 1..len |-> (7 * n + i) % 256]
SignatureOf(n) == [i \in 1..BeaconSigLen |-> (n + 16 * i) % 256]

\* JSON body of GET /{chain}/public/{n}: honest, or the one faulty entry.
BeaconBody(n) ==
    LET faulty == beaconFault.kind # "none" /\ beaconFault.round = n
        kind == IF faulty THEN beaconFault.kind ELSE "none"
        len == CASE kind = "short_randomness" -> RANDOMNESS_LEN - 1
                 [] kind = "long_randomness" -> RANDOMNESS_LEN + 1
                 [] OTHER -> RANDOMNESS_LEN
    IN  [round |-> IF kind = "wrong_round" THEN n - 1 ELSE n,
         randomness |-> hex(RandomnessOf(n, len)),
         signature |-> hex(SignatureOf(n))]

\* The body an endpoint serves for a path: /public/latest or /public/{round}.
Serve(path) ==
    IF path.kind = "latest" THEN BeaconBody(beaconLatest) ELSE BeaconBody(path.round)

\* A body whose randomness is 32 bytes of hex and whose signature is whole
\* bytes of hex: what the beacon must serve for a pulse to exist.
PassesValidation(body) ==
    /\ Len(body.randomness) = 64
    /\ Len(body.signature) % 2 = 0

\* ------------------------------------------------------- pure functions
\* try_into_pulse: the pulse, or raised.
NoPulse == [round |-> 0, randomness |-> << >>, signature |-> << >>]
\* Variant: the length check of line 44 is missing.
try_into_pulse_NoLengthCheck(drand_resp) ==
    LET randomness == unhexlify(drand_resp.randomness)
        signature == unhexlify(drand_resp.signature)
    IN  IF randomness.raised \/ signature.raised
        THEN [raised |-> TRUE, pulse |-> NoPulse]
        ELSE [raised |-> FALSE,
              pulse |-> [round |-> drand_resp.round,
                         randomness |-> randomness.bytes,
                         signature |-> signature.bytes]]

\* Variant: only randomness that is too short is refused.
try_into_pulse_AcceptsLonger(drand_resp) ==
    LET randomness == unhexlify(drand_resp.randomness)
        signature == unhexlify(drand_resp.signature)
    IN  IF randomness.raised \/ signature.raised
        THEN [raised |-> TRUE, pulse |-> NoPulse]
        ELSE IF Len(randomness.bytes) < RANDOMNESS_LEN
        THEN [raised |-> TRUE, pulse |-> NoPulse]
        ELSE [raised |-> FALSE,
              pulse |-> [round |-> drand_resp.round,
                         randomness |-> randomness.bytes,
                         signature |-> signature.bytes]]

try_into_pulse(drand_resp) ==
    LET randomness == unhexlify(drand_resp.randomness)
        signature == unhexlify(drand_resp.signature)
    IN  IF randomness.raised \/ signature.raised
        THEN [raised |-> TRUE, pulse |-> NoPulse]
        ELSE IF Len(randomness.bytes) # RANDOMNESS_LEN
        THEN [raised |-> TRUE, pulse |-> NoPulse]
        ELSE [raised |-> FALSE,
              pulse |-> [round |-> drand_resp.round,
                         randomness |-> randomness.bytes,
                         signature |-> signature.bytes]]

\* int.to_bytes(width, 'little')
RECURSIVE to_bytes(_, _)
to_bytes(n, width) ==
    IF width = 0 THEN << >> ELSE << n % 256 >> \o to_bytes(n \div 256, width - 1)

\* ((value << 2) | tag).to_bytes(width, 'little') for value >= 0, taken byte
\* by byte: the low byte holds the tag and the six low bits of value.
shifted_to_bytes(value, tag, width) ==
    << (value % 64) * 4 + tag >> \o to_bytes(value \div 64, width - 1)

\* Variant: the first tier ends one value late (<= 64 for < 64).
encode_compact_u32_LateTier(value) ==
    IF value <= 64 THEN to_bytes((value * 4) % 256, 1)
    ELSE IF value < 16384 THEN shifted_to_bytes(value, 1, 2)
    ELSE IF value < 1073741824 THEN shifted_to_bytes(value, 2, 4)
    ELSE shifted_to_bytes(value, 3, 5)

\* No branch raises: a negative value takes the first one.
encode_compact_u32(value) ==
    IF value < 64 THEN to_bytes((value * 4) % 256, 1)
    ELSE IF value < 16384 THEN shifted_to_bytes(value, 1, 2)
    ELSE IF value < 1073741824 THEN shifted_to_bytes(value, 2, 4)
    ELSE shifted_to_bytes(value, 3, 5)

encode_pulse(pulse) ==
    to_bytes(pulse.round, 8)
    \o encode_compact_u32(Len(pulse.randomness)) \o pulse.randomness
    \o encode_compact_u32(Len(pulse.signature)) \o pulse.signature

\* Variant: the MultiSigner discriminant of line 87 is missing.
encode_pulses_payload_NoDiscriminant(pulses_payload) ==
    LET pulses_list == pulses_payload.pulses
    IN  to_bytes(pulses_payload.block_number, 4)
        \o encode_compact_u32(Len(pulses_list))
        \o Flatten([i \in DOMAIN pulses_list |->
                to_bytes(pulses_list[i].round, 8)
                \o encode_compact_u32(Len(pulses_list[i].randomness))
                \o pulses_list[i].randomness
                \o encode_compact_u32(Len(pulses_list[i].signature))
                \o pulses_list[i].signature])
        \o pulses_payload.public

\* Variant: the signature bytes of line 84 are left out, their length kept.
encode_pulses_payload_NoSignatureBytes(pulses_payload) ==
    LET pulses_list == pulses_payload.pulses
    IN  to_bytes(pulses_payload.block_number, 4)
        \o encode_compact_u32(Len(pulses_list))
        \o Flatten([i \in DOMAIN pulses_list |->
                to_bytes(pulses_list[i].round, 8)
                \o encode_compact_u32(Len(pulses_list[i].randomness))
                \o pulses_list[i].randomness
                \o encode_compact_u32(Len(pulses_list[i].signature))])
        \o << 1 >>
        \o pulses_payload.public

\* Lines 74-90; the loop body repeats encode_pulse field by field.
encode_pulses_payload(pulses_payload) ==
    LET pulses_list == pulses_payload.pulses
    IN  to_bytes(pulses_payload.block_number, 4)
        \o encode_compact_u32(Len(pulses_list))
        \o Flatten([i \in DOMAIN pulses_list |->
                to_bytes(pulses_list[i].round, 8)
                \o encode_compact_u32(Len(pulses_list[i].randomness))
                \o pulses_list[i].randomness
                \o encode_compact_u32(Len(pulses_list[i].signature))
                \o pulses_list[i].signature])
        \o << 1 >>
        \o pulses_payload.public

\* ------------------------------------------------------------- the gate
\* Variant: the comparison of line 101 is turned round.
BelowThreshold_Flipped(block, nua) == block > nua

BelowThreshold(block, nua) == block < nua

\* Variant: the bootstrap of lines 113-114 is missing.
Bootstrap_Missing(last, current) == last

\* Variant: the bootstrap is applied whatever the chain stored.
Bootstrap_Always(last, current) == current - 1

\* Variant: the bootstrap starts two rounds back.
Bootstrap_TwoBack(last, current) == IF last = 0 THEN current - 2 ELSE last

Bootstrap(last, current) == IF last = 0 THEN current - 1 ELSE last

NoGap(current, last) == current <= last

\* Variant: the cap of line 120 is missing.
RoundsToFetch_NoCap(current, last) == current - last

RoundsToFetch(current, last) == Min(current - last, MAX_PULSES_TO_FETCH)

\* Variant: the range of line 122 is walked downwards.
RoundRange_Descending(last, n) == [i \in 1..n |-> last + n + 1 - i]

\* range(last + 1, last + 1 + n), as the sequence the for loop walks
RoundRange(last, n) == [i \in 1..n |-> last + i]

\* Variant: the deadline check of lines 36-37 is missing.
DeadlinePassed_Never(el) == FALSE

\* time.time() > deadline, with deadline = start + HTTP_FETCH_TIMEOUT / 1000
DeadlinePassed(el) == el > HTTP_FETCH_TIMEOUT

\* ----------------------------------------------------------- signing, call
\* keypair = Keypair.create_from_uri("//Bob"): the well-known dev key.
public_bytes ==
    << 142, 175, 4, 21, 22, 135, 115, 99, 38, 201, 254, 161, 126, 37, 252, 82,
       135, 97, 54, 147, 201, 18, 144, 156, 178, 38, 170, 71, 148, 242, 106, 72 >>

\* keypair.sign(message): a detached signature, bound to the key and the message.
sign(message) == [scheme |-> "Sr25519", signer |-> public_bytes, over |-> message]

\* "0x" + bytes.hex()
HexString(bytes) == [prefix |-> "0x", digits |-> hex(bytes)]

\* Variant: the payload that is signed carries a block number left at 0.
EncodedPayload_StaleBlock(block, ps) ==
    encode_pulses_payload(
        [block_number |-> 0, pulses |-> ps, public |-> public_bytes])

\* Lines 130-135: the bytes that are signed.
EncodedPayload(block, ps) ==
    encode_pulses_payload(
        [block_number |-> block, pulses |-> ps, public |-> public_bytes])

\* Lines 130-167: payload, signature, call and unsigned extrinsic.
BuildExtrinsic(block, ps) ==
    LET encoded_payload == EncodedPayload(block, ps)
        signature_bytes == sign(encoded_payload)
        pulses_for_call ==
            [i \in DOMAIN ps |->
                [round |-> ps[i].round,
                 randomness |-> HexString(ps[i].randomness),
                 signature |-> HexString(ps[i].signature)]]
    IN  [call_module |-> "Drand",
         call_function |-> "write_pulse",
         pulses_payload |->
             [block_number |-> block,
              pulses |-> pulses_for_call,
              public |-> [Sr25519 |-> HexString(public_bytes)]],
         signature |-> [Sr25519 |-> [prefix |-> "0x", hex_of |-> signature_bytes]],
         unsigned |-> TRUE]

\* ------------------------------------------------------------------ Init
NoLine == [text |-> "", first |-> 0, last |-> 0, message |-> ""]
NoReceipt == [present |-> FALSE, is_success |-> FALSE, error_message |-> ""]
NoInput == [fn |-> "none"]
NoResult == [state |-> "none"]
NoPath == [kind |-> "none", round |-> 0]
NoResponse == [status |-> "none", from |-> 0, body |-> NoPulse]

Init ==
    /\ chainNextUnsignedAt \in NextUnsignedAtValues
    /\ chainLastStoredRound \in LastStoredRoundValues
    /\ beaconLatest \in LatestRoundValues
    /\ beaconFault \in BeaconFaults
    /\ head = 0
    /\ pending = << >>
    /\ pc = "idle"
    /\ current_block = 0
    /\ next_unsigned_at = 0
    /\ last_stored_round = 0
    /\ current_round = 0
    /\ rounds_to_fetch = 0
    /\ r = 0
    /\ pulses = << >>
    /\ relative_path = NoPath
    /\ endpointIdx = 0
    /\ elapsed = 0
    /\ response = NoResponse
    /\ attempts = << >>
    /\ latestFetches = 0
    /\ requested = << >>
    /\ calls = << >>
    /\ stepFailed = FALSE
    /\ outcome = "none"
    /\ printed = NoLine
    /\ receipt = NoReceipt
    /\ input = NoInput
    /\ result = NoResult

\* --------------------------------------------------------- environment
\* The feed delivers the next block header; it waits in the queue while a
\* cycle is running.
NewBlock ==
    /\ pc # "crashed"
    /\ head < MaxBlock
    /\ Len(pending) < MaxPending
    /\ head' = head + 1
    /\ pending' = Append(pending, head + 1)
    /\ UNCHANGED << chainVars, beaconVars, pc, gateVars, r, pulses, fetchVars,
                    latestFetches, requested, calls, stepFailed, outcome, printed, receipt,
                    pureVars >>

\* The chain rewrites its storage between two cycles.
ChainStorageChange ==
    /\ pc = "idle"
    /\ chainNextUnsignedAt' \in NextUnsignedAtValues
    /\ chainLastStoredRound' \in LastStoredRoundValues
    /\ chainVars' # chainVars
    /\ UNCHANGED << beaconVars, feedVars, pc, gateVars, r, pulses, fetchVars,
                    latestFetches, requested, calls, stepFailed, outcome, printed, receipt,
                    pureVars >>

\* The beacon publishes rounds (or its faulty entry changes) between two cycles.
BeaconChange ==
    /\ pc = "idle"
    /\ beaconLatest' \in LatestRoundValues
    /\ beaconFault' \in BeaconFaults
    /\ beaconVars' # beaconVars
    /\ UNCHANGED << chainVars, feedVars, pc, gateVars, r, pulses, fetchVars,
                    latestFetches, requested, calls, stepFailed, outcome, printed, receipt,
                    pureVars >>

\* ------------------------------------------------------------ the cycle
\* fetch_from_any_endpoint is entered: deadline set, loop at the first endpoint.
EnterFetch(path) ==
    /\ relative_path' = path
    /\ endpointIdx' = 1
    /\ elapsed' = 0
    /\ response' = NoResponse
    /\ attempts' = << >>

\* An exception leaves submit_new_pulses and block_subscription_handler (no
\* try/except anywhere): it ends the subscribe_block_headers call of line 179,
\* the last statement of the script.
Raise(why) ==
    /\ pc' = "crashed"
    /\ outcome' = why
    /\ pulses' = << >>
    /\ UNCHANGED << printed, receipt >>

\* submit_new_pulses returns to the handler, after printing a line or none.
Return(why, line) ==
    /\ pc' = "returned"
    /\ outcome' = why
    /\ pulses' = << >>
    /\ printed' = line
    /\ UNCHANGED receipt

\* Variant: a header is also taken while a submission waits for inclusion.
CanTakeNext_WhileWaiting(position) == position \in {"idle", "awaiting_inclusion"}

\* Lines 175-179: the subscription calls the handler for one header at a
\* time, and the handler calls submit_new_pulses and waits for it to return.
CanTakeNext(position) == position = "idle"

\* Lines 175-177 and 96-109: the handler takes the next notification, reads
\* NextUnsignedAt, and either returns or reads LastStoredRound and asks for
\* the latest round.
block_subscription_handler ==
    /\ CanTakeNext(pc)
    /\ pending # << >>
    /\ LET block == Head(pending)
           nua == ValueOrZero(chainNextUnsignedAt)
       IN  /\ pending' = Tail(pending)
           /\ current_block' = block
           /\ next_unsigned_at' = nua
           /\ current_round' = 0
           /\ rounds_to_fetch' = 0
           /\ r' = 0
           /\ requested' = << >>
           /\ calls' = << >>
           /\ stepFailed' = FALSE
           /\ IF BelowThreshold(block, nua)
              THEN /\ Return("skip_threshold", NoLine)
                   /\ last_stored_round' = 0
                   /\ latestFetches' = 0
                   /\ relative_path' = NoPath
                   /\ endpointIdx' = 0
                   /\ elapsed' = 0
                   /\ response' = NoResponse
                   /\ attempts' = << >>
              ELSE /\ last_stored_round' = ValueOrZero(chainLastStoredRound)
                   /\ latestFetches' = 1
                   /\ EnterFetch([kind |-> "latest", round |-> 0])
                   /\ pc' = "fetch_latest"
                   /\ outcome' = "running"
                   /\ pulses' = << >>
                   /\ printed' = NoLine
                   /\ UNCHANGED receipt
    /\ UNCHANGED << chainVars, beaconVars, head, pureVars >>

\* Variant: a failed endpoint is tried again instead of the next one.
NextEndpoint_Same(idx) == idx

\* The for loop of line 28 moves on to the next endpoint of the list.
NextEndpoint(idx) == idx + 1

\* Lines 28-38: one iteration of the failover loop, i.e. one HTTP request.
\* stepFailed records what happened to the cycle, whatever the code does
\* about it: a body that cannot become a pulse was served, or the fetch gave up.
fetch_from_any_endpoint ==
    /\ pc \in {"fetch_latest", "fetch_round"}
    /\ \E status \in Statuses, took \in Durations :
        /\ attempts' = Append(attempts, endpointIdx)
        /\ elapsed' = elapsed + took
        /\ IF status = "200"
           THEN /\ response' = [status |-> status, from |-> endpointIdx,
                                body |-> Serve(relative_path)]
                /\ pc' = IF pc = "fetch_latest" THEN "latest_done" ELSE "round_done"
                /\ stepFailed' = (stepFailed \/ ~PassesValidation(Serve(relative_path)))
                /\ UNCHANGED << endpointIdx, outcome, pulses, printed, receipt >>
           ELSE /\ response' = [status |-> status, from |-> endpointIdx,
                                body |-> NoPulse]
                /\ IF DeadlinePassed(elapsed') \/ endpointIdx = Len(DRAND_ENDPOINTS)
                   THEN /\ Raise("no_endpoint")
                        /\ stepFailed' = TRUE
                        /\ UNCHANGED endpointIdx
                   ELSE /\ endpointIdx' = NextEndpoint(endpointIdx)
                        /\ UNCHANGED << pc, outcome, pulses, stepFailed, printed,
                                        receipt >>
    /\ UNCHANGED << chainVars, beaconVars, feedVars, gateVars, r, relative_path,
                    latestFetches, requested, calls, pureVars >>

\* The for loop of line 122 asks for round n.
AskRound(n) ==
    /\ r' = n
    /\ requested' = Append(requested, n)
    /\ EnterFetch([kind |-> "round", round |-> n])
    /\ pc' = "fetch_round"

\* Lines 126-168, after the loop: nothing to submit, or the payload is
\* encoded, signed and submitted, and the cycle waits for inclusion.
AfterLoop(ps) ==
    IF ps = << >>
    THEN /\ Return("no_pulses", [NoLine EXCEPT !.text = "No new pulses to submit."])
         /\ UNCHANGED calls
    ELSE /\ calls' = Append(calls, BuildExtrinsic(current_block, ps))
         /\ pulses' = ps
         /\ pc' = "awaiting_inclusion"
         /\ UNCHANGED << outcome, printed, receipt >>

\* Lines 109-123: the latest pulse is validated, the gate decides, and the
\* first round of the range is asked for.
latest_fetched ==
    /\ pc = "latest_done"
    /\ LET latest_pulse == try_into_pulse(response.body)
           current == latest_pulse.pulse.round
           last == Bootstrap(last_stored_round, current)
           n == RoundsToFetch(current, last)
       IN  IF latest_pulse.raised
           THEN /\ Raise("invalid_pulse")
                /\ UNCHANGED << gateVars, r, fetchVars, requested, calls, stepFailed >>
           ELSE /\ current_round' = current
                /\ last_stored_round' = last
                /\ UNCHANGED << current_block, next_unsigned_at, stepFailed >>
                /\ IF NoGap(current, last)
                   THEN /\ Return("skip_no_gap",
                                [NoLine EXCEPT !.text = "No new rounds to fetch."])
                        /\ UNCHANGED << rounds_to_fetch, r, fetchVars, requested, calls >>
                   ELSE /\ rounds_to_fetch' = n
                        /\ IF n >= 1
                           THEN /\ AskRound(RoundRange(last, n)[1])
                                /\ pulses' = << >>
                                /\ UNCHANGED << outcome, calls, printed, receipt >>
                           ELSE /\ AfterLoop(<< >>)
                                /\ UNCHANGED << r, fetchVars, requested >>
    /\ UNCHANGED << chainVars, beaconVars, feedVars, latestFetches, pureVars >>

\* Lines 123-124 and the loop's next turn: the round's pulse is validated and
\* appended; then the next round is asked for, or the loop is over.
round_fetched ==
    /\ pc = "round_done"
    /\ LET p == try_into_pulse(response.body)
           range == RoundRange(last_stored_round, rounds_to_fetch)
           done == Len(pulses) + 1
       IN  IF p.raised
           THEN /\ Raise("invalid_pulse")
                /\ UNCHANGED << r, fetchVars, requested, calls, stepFailed >>
           ELSE /\ UNCHANGED stepFailed
                /\ IF done < Len(range)
                   THEN /\ pulses' = Append(pulses, p.pulse)
                        /\ AskRound(range[done + 1])
                        /\ UNCHANGED << outcome, calls, printed, receipt >>
                   ELSE /\ AfterLoop(Append(pulses, p.pulse))
                        /\ UNCHANGED << r, fetchVars, requested >>
    /\ UNCHANGED << chainVars, beaconVars, feedVars, gateVars, latestFetches,
                    pureVars >>

\* receipt.error_message of a rejected extrinsic
ErrorMessages == {"BadProof", "Stale"}

\* Variant: the range starts one round early.
SuccessLine_FromLast(last, n) ==
    [NoLine EXCEPT !.text = "Successfully submitted pulses",
                   !.first = last, !.last = last + n]

\* Line 171: the line printed on success, with the submitted round range.
SuccessLine(last, n) ==
    [NoLine EXCEPT !.text = "Successfully submitted pulses",
                   !.first = last + 1, !.last = last + n]

\* Line 173: the line printed on failure, with the receipt's error message.
FailureLine(error_message) ==
    [NoLine EXCEPT !.text = "Failed to submit", !.message = error_message]

\* The receipts submit_extrinsic can come back with.
Receipts ==
    {[present |-> TRUE, is_success |-> TRUE, error_message |-> ""]}
    \cup {[present |-> TRUE, is_success |-> FALSE, error_message |-> m] :
             m \in ErrorMessages}

\* Lines 168-173: submit_extrinsic(wait_for_inclusion=True) comes back with
\* the receipt; the result is printed and the function returns.
receipt_received ==
    /\ pc = "awaiting_inclusion"
    /\ \E got \in Receipts :
        /\ receipt' = got
        /\ pc' = "returned"
        /\ pulses' = << >>
        /\ IF got.is_success
           THEN /\ outcome' = "success"
                /\ printed' = SuccessLine(last_stored_round, rounds_to_fetch)
           ELSE /\ outcome' = "failed_to_submit"
                /\ printed' = FailureLine(got.error_message)
    /\ UNCHANGED << chainVars, beaconVars, feedVars, gateVars, r, fetchVars,
                    latestFetches, requested, calls, stepFailed, pureVars >>

\* Line 177 returns: the frame of the cycle is gone and the subscription loop
\* waits for the next header.
handler_returns ==
    /\ pc = "returned"
    /\ pc' = "idle"
    /\ current_block' = 0
    /\ next_unsigned_at' = 0
    /\ last_stored_round' = 0
    /\ current_round' = 0
    /\ rounds_to_fetch' = 0
    /\ r' = 0
    /\ relative_path' = NoPath
    /\ endpointIdx' = 0
    /\ elapsed' = 0
    /\ response' = NoResponse
    /\ attempts' = << >>
    /\ latestFetches' = 0
    /\ requested' = << >>
    /\ calls' = << >>
    /\ stepFailed' = FALSE
    /\ outcome' = "none"
    /\ printed' = NoLine
    /\ receipt' = NoReceipt
    /\ UNCHANGED << chainVars, beaconVars, feedVars, pulses, pureVars >>

Next ==
    \/ NewBlock
    \/ ChainStorageChange
    \/ BeaconChange
    \/ block_subscription_handler
    \/ fetch_from_any_endpoint
    \/ latest_fetched
    \/ round_fetched
    \/ receipt_received
    \/ handler_returns

Spec == Init /\ [][Next]_vars

\* ------------------------------------------- the pure functions on their own
\* Arguments for encode_compact_u32: a dense run around 0 and the first
\* tier boundary, and the other boundaries.
MaxSmallValue == 70
CompactInputs ==
    (-3..MaxSmallValue) \cup {255, 256, 16383, 16384, 16385, 65536,
                              1073741823, 1073741824, 1073741825, 2147483647}

\* Arguments for try_into_pulse: hex strings by length (in digits) and pattern.
HexPattern(len, k) == [i \in 1..len |-> (k * i) % 16]
ResponseInputs ==
    [round : {1, 7},
     randomness : {HexPattern(len, k) : len \in {0, 2, 62, 63, 64, 65, 66, 128},
                                        k \in {3, 5}},
     signature : {HexPattern(len, 7) : len \in {0, 2, 3, 8}}]

\* Arguments for encode_pulses_payload: a payload and a second one, equal to
\* it or differing from it in exactly one field.
BytePattern(len, k) == [i \in 1..len |-> (k * i) % 256]
BlockInputs == {0, 1, 258, 2147483647}
RoundInputs == {1, 257, 65537}
RandomnessInputs == {BytePattern(32, 3), BytePattern(32, 5), BytePattern(31, 3)}
SignatureInputs == {<< >>, << 1 >>, << 2 >>, << 1, 2 >>, << 2, 1 >>}
PublicInputs == {public_bytes, BytePattern(32, 9)}
PulseInputs ==
    [round : RoundInputs, randomness : {BytePattern(32, 3)},
     signature : {<< 1, 2 >>}]
    \cup {[round |-> 1, randomness |-> BytePattern(31, 3), signature |-> << >>]}
FirstPulseInput ==
    [round |-> 1, randomness |-> BytePattern(32, 3), signature |-> << 1, 2 >>]
BasePayloads ==
    [block_number : {1, 258},
     pulses : {<< p >> : p \in PulseInputs}
              \cup {<< FirstPulseInput, q >> : q \in PulseInputs},
     public : {public_bytes}]
OneFieldChanged(p) ==
    {[p EXCEPT !.block_number = b] : b \in BlockInputs}
    \cup {[p EXCEPT !.public = k] : k \in PublicInputs}
    \cup {[p EXCEPT !.pulses[i].round = n] : i \in DOMAIN p.pulses, n \in RoundInputs}
    \cup {[p EXCEPT !.pulses[i].randomness = x] :
              i \in DOMAIN p.pulses, x \in RandomnessInputs}
    \cup {[p EXCEPT !.pulses[i].signature = x] :
              i \in DOMAIN p.pulses, x \in SignatureInputs}
PayloadInputs ==
    UNION {{[payload |-> p, other |-> q] : q \in OneFieldChanged(p)} :
              p \in BasePayloads}

PureInputs ==
    {[fn |-> "encode_compact_u32", value |-> v] : v \in CompactInputs}
    \cup {[fn |-> "try_into_pulse", drand_resp |-> x] : x \in ResponseInputs}
    \cup {[fn |-> "encode_pulses_payload", payload |-> x.payload, other |-> x.other] :
              x \in PayloadInputs}

mainVars == << chainVars, beaconVars, feedVars, pc, gateVars, r, pulses, fetchVars,
               latestFetches, requested, calls, stepFailed, outcome, printed, receipt >>

\* No cycle runs: the process state is the one after start-up.
InitPure ==
    /\ chainNextUnsignedAt = NoneResult
    /\ chainLastStoredRound = NoneResult
    /\ beaconLatest = 1
    /\ beaconFault = NoFault
    /\ head = 0
    /\ pending = << >>
    /\ pc = "idle"
    /\ current_block = 0
    /\ next_unsigned_at = 0
    /\ last_stored_round = 0
    /\ current_round = 0
    /\ rounds_to_fetch = 0
    /\ r = 0
    /\ pulses = << >>
    /\ relative_path = NoPath
    /\ endpointIdx = 0
    /\ elapsed = 0
    /\ response = NoResponse
    /\ attempts = << >>
    /\ latestFetches = 0
    /\ requested = << >>
    /\ calls = << >>
    /\ stepFailed = FALSE
    /\ outcome = "none"
    /\ printed = NoLine
    /\ receipt = NoReceipt
    /\ input \in PureInputs
    /\ result = NoResult

\* encode_compact_u32(value) is called and comes back.
apply_encode_compact_u32 ==
    /\ input.fn = "encode_compact_u32"
    /\ result = NoResult
    /\ result' = [state |-> "returned", bytes |-> encode_compact_u32(input.value)]
    /\ UNCHANGED << mainVars, input >>

\* try_into_pulse(drand_resp) is called and comes back or raises.
apply_try_into_pulse ==
    /\ input.fn = "try_into_pulse"
    /\ result = NoResult
    /\ LET got == try_into_pulse(input.drand_resp)
       IN  result' = IF got.raised
                     THEN [state |-> "raised"]
                     ELSE [state |-> "returned", pulse |-> got.pulse]
    /\ UNCHANGED << mainVars, input >>

\* encode_pulses_payload is called on the payload and on the other one.
apply_encode_pulses_payload ==
    /\ input.fn = "encode_pulses_payload"
    /\ result = NoResult
    /\ result' = [state |-> "returned",
                  bytes |-> encode_pulses_payload(input.payload),
                  other_bytes |-> encode_pulses_payload(input.other)]
    /\ UNCHANGED << mainVars, input >>

NextPure ==
    \/ apply_encode_compact_u32
    \/ apply_try_into_pulse
    \/ apply_encode_pulses_payload

SpecPure == InitPure /\ [][NextPure]_vars

\* =================================================================== claims
\* What the cycle read from the chain (the storage does not change while a
\* cycle runs) and what the beacon reported as its latest round.
ChainL == ValueOrZero(chainLastStoredRound)
ChainNua == ValueOrZero(chainNextUnsignedAt)
InCycle == outcome # "none"
LatestKnown == InCycle /\ current_round # 0
IsPrefix(s, t) == Len(s) <= Len(t) /\ \A i \in DOMAIN s : s[i] = t[i]
Submitted == pc = "awaiting_inclusion" \/ outcome \in {"success", "failed_to_submit"}
CallRounds(call) ==
    [i \in DOMAIN call.pulses_payload.pulses |-> call.pulses_payload.pulses[i].round]
\* The range [L + 1, L + min(N - L, 50)], ascending.
Target(L, N) == [i \in 1..(IF N - L < 50 THEN N - L ELSE 50) |-> L + i]
EligibleCycle ==
    /\ LatestKnown
    /\ current_block >= ChainNua
    /\ ChainL > 0
    /\ current_round > ChainL

\* C1: in an eligible cycle (current_block >= next_unsigned_at, chain value
\* L > 0, latest round N > L) rounds_to_fetch is min(N - L, 50); the rounds
\* asked for by round are L+1, L+2, ... in ascending order, each once, never
\* one outside L+1..L+rounds_to_fetch, and all of them once the loop is over.
C1_TargetRange ==
    EligibleCycle =>
        /\ rounds_to_fetch = (IF current_round - ChainL < 50
                              THEN current_round - ChainL ELSE 50)
        /\ requested # << >>
        /\ IsPrefix(requested, Target(ChainL, current_round))
        /\ Submitted => requested = Target(ChainL, current_round)

C1_Witness ==
    /\ EligibleCycle
    /\ current_round - ChainL > 50
    /\ pc = "awaiting_inclusion"
    /\ Len(requested) = 50
    /\ requested[50] = ChainL + 50

\* C2: a cycle whose block number is below next_unsigned_at ends as a skip:
\* no request to the beacon (latest or by round) and no submission call,
\* whatever last_stored_round and the beacon are.
C2_BelowThresholdSkips ==
    (InCycle /\ current_block < ChainNua) =>
        /\ pc = "returned"
        /\ outcome = "skip_threshold"
        /\ latestFetches = 0
        /\ requested = << >>
        /\ attempts = << >>
        /\ calls = << >>

C2_Witness ==
    /\ outcome = "skip_threshold"
    /\ current_block < ChainNua
    /\ ChainL = 1
    /\ beaconLatest = 52

\* C3: when the chain reports last_stored_round 0 (or nothing) and the latest
\* round is N, the effective last stored round is N - 1 and the target range
\* is [N, N]: round N is the only round asked for.
C3_Bootstrap ==
    (LatestKnown /\ current_block >= ChainNua /\ ChainL = 0) =>
        /\ last_stored_round = current_round - 1
        /\ rounds_to_fetch = 1
        /\ requested = << current_round >>
        /\ \A i \in DOMAIN calls : Len(calls[i].pulses_payload.pulses) = 1

C3_Witness ==
    /\ chainLastStoredRound = NoneResult
    /\ current_round = 52
    /\ requested = << 52 >>
    /\ outcome = "success"

\* C4: when the latest round is <= the non-zero last_stored_round read in
\* the cycle, the cycle ends as a skip: no fetch by round, no payload, no
\* submission call.
C4_NoGapSkips ==
    (LatestKnown /\ ChainL # 0 /\ current_round <= ChainL) =>
        /\ pc = "returned"
        /\ requested = << >>
        /\ pulses = << >>
        /\ calls = << >>
        /\ ~ Submitted

C4_Witness ==
    /\ LatestKnown
    /\ ChainL = 1
    /\ current_round = 1
    /\ outcome = "skip_no_gap"

\* C5: every payload that is built holds at least one and at most 50
\* pulses, and their rounds are consecutive: each is the one before plus 1.
C5_PayloadContiguous ==
    \A c \in Range(calls) :
        LET rounds == CallRounds(c)
        IN  /\ Len(rounds) >= 1
            /\ Len(rounds) <= 50
            /\ \A i \in 2..Len(rounds) : rounds[i] = rounds[i - 1] + 1

\* C6: an eligible cycle (chain value L > 0, latest round N > L) in which the
\* beacon answers every request with the valid pulse of the round asked for
\* makes exactly one submission call, and the call carries the pulses of
\* rounds L+1 .. L+min(N-L,50), in ascending order.
BeaconAnswersAsAsked ==
    ~ (beaconFault.kind = "wrong_round" /\ beaconFault.round \in Range(requested))
PulseOfRound(n) ==
    [round |-> n,
     randomness |-> [prefix |-> "0x", digits |-> hex(RandomnessOf(n, 32))],
     signature |-> [prefix |-> "0x", digits |-> hex(SignatureOf(n))]]
C6_EndToEnd ==
    (EligibleCycle /\ BeaconAnswersAsAsked /\ ~stepFailed) =>
        /\ Len(calls) <= 1
        /\ pc \in {"awaiting_inclusion", "returned"} =>
            /\ Len(calls) = 1
            /\ calls[1].pulses_payload.pulses =
                   [i \in DOMAIN Target(ChainL, current_round) |->
                       PulseOfRound(Target(ChainL, current_round)[i])]

C6_Witness ==
    /\ EligibleCycle
    /\ ChainL = 1
    /\ pc = "returned"
    /\ Len(calls) = 1
    /\ CallRounds(calls[1]) = << 2, 3, 4 >>

\* C7: if a step of the cycle fails (a fetch runs out of endpoints, or a
\* served body is no valid pulse), the cycle stops there: no further request,
\* no submission call, and the pulses fetched so far are dropped.
C7_AbortOnFailure ==
    stepFailed =>
        /\ pc \in {"latest_done", "round_done", "crashed", "returned"}
        /\ calls = << >>
        /\ pc \in {"crashed", "returned"} => pulses = << >>

C7_Witness ==
    /\ stepFailed
    /\ outcome = "invalid_pulse"
    /\ requested = << 2, 3 >>
    /\ pulses = << >>
    /\ calls = << >>

\* C8: after a cycle that failed (no endpoint available, invalid pulse, or
\* submission rejected) the driver goes on to the next block notification.
\* Control is back in the subscription loop (pc = "returned"), which alone
\* takes the next notification.
CycleFailed == outcome \in {"no_endpoint", "invalid_pulse", "failed_to_submit"}
C8_DriverSurvivesFailure == CycleFailed => pc = "returned"

\* C9: a fetch tries the endpoints in list order, each at most once; it goes
\* to the next endpoint only after the one before failed (transport error or
\* non-200), and it returns the body of the first endpoint that answered 200,
\* contacting none after it.
Fetching == pc \in {"fetch_latest", "fetch_round"}
Fetched == pc \in {"latest_done", "round_done"}
LastFailed == response.status \in {"non200", "transport_error"}
C9_FailoverInOrder ==
    /\ Len(attempts) <= 5
    /\ \A i \in DOMAIN attempts : attempts[i] = i
    /\ Fetching =>
        /\ endpointIdx = Len(attempts) + 1
        /\ attempts # << >> => LastFailed /\ response.from = Len(attempts)
    /\ Fetched =>
        /\ response.status = "200"
        /\ response.from = Len(attempts)
        /\ response.body = Serve(relative_path)

C9_Witness ==
    /\ Fetched
    /\ attempts = << 1, 2, 3 >>
    /\ response.from = 3
    /\ response.status = "200"

\* C10 as claimed: a fetch has failed whenever the deadline elapsed before
\* an endpoint answered 200, so a fetch that returns a body has done so
\* within the budget.
C10_FailsWhenDeadlineElapses ==
    /\ Fetched => elapsed <= 10000
    /\ (outcome = "no_endpoint") => (Len(attempts) = 5 \/ elapsed > 10000)

\* C10 as amended: the deadline is looked at only after a failed request.
\* A fetch fails with the no-endpoint error exactly when a request fails and
\* either it was the last endpoint's or the deadline has passed by then; no
\* endpoint is contacted after that.  A 200 that arrives late is returned.
C10_DeadlineCheckedAfterFailure ==
    /\ Fetching => (elapsed <= 10000 /\ Len(attempts) < 5)
    /\ (outcome = "no_endpoint") =>
        /\ pc = "crashed"
        /\ LastFailed
        /\ Len(attempts) = 5 \/ elapsed > 10000
    /\ (InCycle /\ LastFailed /\ (Len(attempts) = 5 \/ elapsed > 10000)) =>
        outcome = "no_endpoint"

C10_Witness ==
    /\ outcome = "no_endpoint"
    /\ attempts = << 1, 2, 3 >>
    /\ elapsed > 10000

C10_LateSuccess ==
    /\ Fetched
    /\ elapsed > 10000

\* ------------------------------------------------ the layout, written out
\* Little-endian bytes of n in w bytes.
RECURSIVE ByteAt(_, _)
ByteAt(n, i) == IF i = 1 THEN n % 256 ELSE ByteAt(n \div 256, i - 1)
RefLE(n, w) == [i \in 1..w |-> ByteAt(n, i)]
\* Tag and width of a value's range.
TagOf(v) ==
    CASE v < 64 -> 0
      [] v >= 64 /\ v < 16384 -> 1
      [] v >= 16384 /\ v < 1073741824 -> 2
      [] OTHER -> 3
WidthOf(v) == CASE TagOf(v) = 0 -> 1 [] TagOf(v) = 1 -> 2 [] TagOf(v) = 2 -> 4 [] OTHER -> 5
\* Little-endian bytes of (v << 2) | tag: byte 1 is the six low bits of v
\* above the tag, the rest are the bytes of v >> 6.
RefCompact(v) ==
    [i \in 1..WidthOf(v) |->
        IF i = 1 THEN 4 * (v % 64) + TagOf(v) ELSE ByteAt(v \div 64, i - 1)]
RefPulse(p) ==
    RefLE(p.round, 8)
    \o RefCompact(Len(p.randomness)) \o p.randomness
    \o RefCompact(Len(p.signature)) \o p.signature
RefPayload(block, ps, public) ==
    RefLE(block, 4) \o RefCompact(Len(ps))
    \o Flatten([i \in DOMAIN ps |-> RefPulse(ps[i])])
    \o << 1 >> \o public
\* The bytes a "0x..." string stands for.
FromHex(h) ==
    [i \in 1..(Len(h.digits) \div 2) |-> 16 * h.digits[2 * i - 1] + h.digits[2 * i]]

\* C11: the signature of a submission call is over exactly the encoding of
\* the block number, the pulses (rounds, randomness and signature bytes, in
\* order) and the public key that the call's pulses_payload carries as hex,
\* made with that key, and the call is sent unsigned.
C11_SignatureOverCarriedPayload ==
    \A c \in Range(calls) :
        LET carried == c.pulses_payload
            sig == c.signature.Sr25519.hex_of
        IN  /\ c.unsigned
            /\ c.signature.Sr25519.prefix = "0x"
            /\ carried.public.Sr25519.prefix = "0x"
            /\ sig.signer = FromHex(carried.public.Sr25519)
            /\ sig.over =
                 RefPayload(carried.block_number,
                            [i \in DOMAIN carried.pulses |->
                                [round |-> carried.pulses[i].round,
                                 randomness |-> FromHex(carried.pulses[i].randomness),
                                 signature |-> FromHex(carried.pulses[i].signature)]],
                            FromHex(carried.public.Sr25519))

C11_Witness ==
    /\ pc = "awaiting_inclusion"
    /\ Len(calls) = 1
    /\ Len(calls[1].pulses_payload.pulses) = 3
    /\ calls[1].pulses_payload.block_number = 2

\* A pure function has been applied to the drawn argument.
Applied(fn) == input.fn = fn /\ result.state # "none"

\* The encodings of the tier boundaries, byte by byte.
BoundaryVectors ==
    {<< 0, << 0 >> >>, << 63, << 252 >> >>, << 64, << 1, 1 >> >>,
     << 16383, << 253, 255 >> >>, << 16384, << 2, 0, 1, 0 >> >>,
     << 1073741823, << 254, 255, 255, 255 >> >>,
     << 1073741824, << 3, 0, 0, 0, 1 >> >>}

C13_FailsExactlyOnNegative ==
    Applied("encode_compact_u32") => (result.state = "raised" <=> input.value < 0)

\* The bytes a string of hex digits stands for.
RefDecode(digits) ==
    [i \in 1..(Len(digits) \div 2) |-> 16 * digits[2 * i - 1] + digits[2 * i]]

\* C14: a response whose randomness is not 32 bytes (64 hex digits) is
\* refused and gives no pulse; one with 32-byte randomness gives a pulse whose
\* round, randomness and signature are the response's, whatever the length of
\* the signature.
C14_ValidatorRejectsNot32 ==
    Applied("try_into_pulse") =>
        LET resp == input.drand_resp
        IN  /\ Len(resp.randomness) # 64 => result.state = "raised"
            /\ (Len(resp.randomness) = 64 /\ Len(resp.signature) % 2 = 0) =>
                  /\ result.state = "returned"
                  /\ result.pulse.round = resp.round
                  /\ result.pulse.randomness = RefDecode(resp.randomness)
                  /\ Len(result.pulse.randomness) = 32
                  /\ result.pulse.signature = RefDecode(resp.signature)

C14_Witness ==
    /\ Applied("try_into_pulse")
    /\ Len(input.drand_resp.randomness) = 66
    /\ Len(input.drand_resp.signature) = 8
    /\ result.state = "raised"

\* C15: the payload encoding is, in this order and nothing else: the block
\* number in 4 little-endian bytes, the compact pulse count, per pulse in list
\* order the round in 8 little-endian bytes, compact length and bytes of the
\* randomness, compact length and bytes of the signature, then the byte 1 and
\* the public key bytes.
C15_PayloadLayout ==
    Applied("encode_pulses_payload") =>
        /\ result.bytes = RefPayload(input.payload.block_number,
                                     input.payload.pulses, input.payload.public)
        /\ result.other_bytes = RefPayload(input.other.block_number,
                                           input.other.pulses, input.other.public)

C15_Witness ==
    /\ Applied("encode_pulses_payload")
    /\ Len(input.payload.pulses) = 2
    /\ input.payload.pulses[2].round = 65537
    /\ input.payload.block_number = 258
    /\ SubSeq(result.bytes, 1, 5) = << 2, 1, 0, 0, 8 >>

\* C16: two payloads have the same encoding exactly when they are the same
\* payload: equal payloads encode alike, and payloads that differ in one
\* field (block number, a pulse's round, randomness or signature, or the
\* public key) encode differently.
C16_EncodingDistinguishes ==
    Applied("encode_pulses_payload") =>
        (input.payload = input.other <=> result.bytes = result.other_bytes)

C16_Witness ==
    /\ Applied("encode_pulses_payload")
    /\ input.payload.pulses[1].signature = << 1, 2 >>
    /\ input.other.pulses[1].signature = << 2, 1 >>
    /\ Len(result.bytes) = Len(result.other_bytes)
    /\ result.bytes # result.other_bytes

\* The effective last stored round of the cycle and its latest round.
EffectiveLast == IF ChainL = 0 THEN current_round - 1 ELSE ChainL

\* C17: a cycle sends at most one submission call; after a rejection the
\* cycle has ended with that one call and has printed the failure with the
\* receipt's error message; after inclusion it has printed success with the
\* range from the first to the last target round.
C17_NoRetry ==
    /\ Len(calls) <= 1
    /\ receipt.present =>
          /\ pc = "returned"
          /\ Len(calls) = 1
          /\ outcome = (IF receipt.is_success THEN "success" ELSE "failed_to_submit")
    /\ outcome = "failed_to_submit" =>
          /\ receipt.present /\ ~receipt.is_success
          /\ printed.text = "Failed to submit"
          /\ printed.message = receipt.error_message
    /\ outcome = "success" =>
          /\ receipt.present /\ receipt.is_success
          /\ printed.text = "Successfully submitted pulses"
          /\ printed.first = EffectiveLast + 1
          /\ printed.last =
               EffectiveLast + (IF current_round - EffectiveLast < 50
                                THEN current_round - EffectiveLast ELSE 50)

C17_Witness ==
    /\ outcome = "failed_to_submit"
    /\ printed.message = "Stale"
    /\ Len(calls) = 1
    /\ Len(CallRounds(calls[1])) = 2

C17_WitnessSuccess ==
    /\ outcome = "success"
    /\ printed.first = 2
    /\ printed.last = 51

\* The decision of a gate that sees only the four values of one cycle:
\* skip, or the first and last round of the target range.
NoTarget == [skip |-> TRUE, first |-> 0, last |-> 0]
GateOf(block, nua, L, N) ==
    IF block < nua THEN NoTarget
    ELSE LET E == IF L = 0 THEN N - 1 ELSE L
         IN  IF N <= E THEN NoTarget
             ELSE [skip |-> FALSE, first |-> E + 1,
                   last |-> IF N - E < 50 THEN N ELSE E + 50]
\* The decision the running cycle has taken, once it has taken it.
Decided == outcome = "skip_threshold" \/ LatestKnown
DecisionTaken ==
    IF outcome \in {"skip_threshold", "skip_no_gap"} \/ rounds_to_fetch < 1
    THEN NoTarget
    ELSE [skip |-> FALSE, first |-> last_stored_round + 1,
          last |-> last_stored_round + rounds_to_fetch]
\* A step of the process, as opposed to one of the chain, beacon or feed.
ProcessStep == pc # "idle" \/ pc' # "idle"

\* C18: in every cycle, first or later, the decision (skip, or the target
\* range) is the value of one fixed function of the cycle's block number, the
\* chain's NextUnsignedAt and LastStoredRound at that time and the latest
\* round the beacon reported; a skipping cycle requests no round and sends
\* nothing; and no step of the process changes the chain's storage.
C18_GateStateless ==
    /\ [](Decided =>
            /\ DecisionTaken = GateOf(current_block, ChainNua, ChainL, current_round)
            /\ next_unsigned_at = ChainNua
            /\ DecisionTaken.skip => requested = << >> /\ calls = << >>)
    /\ [][ProcessStep => UNCHANGED chainVars]_vars

C18_Witness ==
    /\ current_block = 2
    /\ pc = "fetch_round"
    /\ chainLastStoredRound = Some(2)
    /\ current_round = 4
    /\ DecisionTaken = [skip |-> FALSE, first |-> 3, last |-> 4]

\* A step in which the cycle of a notification starts.
CycleStarts == current_block' # current_block /\ current_block' # 0

\* C19: a cycle starts only when no cycle is running (the one before has
\* skipped, or returned after its receipt, and the handler is back in the
\* subscription loop), it takes the oldest waiting notification, and
\* notifications wait in the order of their delivery, behind the running
\* cycle's block; none is taken while a submission waits for inclusion.
C19_CyclesDoNotOverlap ==
    /\ [](/\ \A i \in DOMAIN pending : pending[i] > current_block
          /\ \A i, j \in DOMAIN pending : i < j => pending[i] < pending[j])
    /\ [][CycleStarts =>
            /\ pc = "idle" /\ outcome = "none" /\ calls = << >>
            /\ pending # << >>
            /\ current_block' = Head(pending)
            /\ pending' = Tail(pending)]_vars
    /\ [][pc = "awaiting_inclusion" =>
            current_block' = current_block /\ calls' = calls]_vars

C19_Witness ==
    /\ pc = "awaiting_inclusion"
    /\ current_block = 1
    /\ pending = << 2 >>

\* C20: in a cycle that knows the latest round N, every round asked for by
\* round and every round in a submitted payload lies in E+1..N, E being the
\* chain's last stored round, or N - 1 when that is 0.
C20_RoundsWithinRange ==
    LatestKnown =>
        /\ \A i \in DOMAIN requested :
              EffectiveLast < requested[i] /\ requested[i] <= current_round
        /\ \A c \in Range(calls) : \A i \in DOMAIN c.pulses_payload.pulses :
              /\ EffectiveLast < c.pulses_payload.pulses[i].round
              /\ c.pulses_payload.pulses[i].round <= current_round

====
